---- MODULE Spec2Model ----
(***************************************************************************)
(* A model of the in-memory cache backend syncMap (NewSyncMap) and of the  *)
(* shared trait it delegates to: TTL derivation with jitter, read          *)
(* classification (hit / miss / expired), expire-all, delete-all, and the  *)
(* janitor goroutine with expiry reclamation and pressure eviction.        *)
(*                                                                         *)
(* Time: one unit is 15 seconds.  time.Now() is the variable now; the      *)
(* clock is read at multiples of TickStep, so two calls may read the same  *)
(* instant.  A time.Duration is an integer number of units; float64 to     *)
(* Duration conversion truncates toward zero (Trunc).                      *)
(* Fractions (ExpirationJitter, EvictFraction, rand.Float64) are percents. *)
(***************************************************************************)
EXTENDS Integers, Sequences, FiniteSets, TLC

\* ------------------------------------------------------------------ bounds
NumKeys == 3
NumValues == 2
NumCallKeys == 2
MaxTicks == 3
MaxConcurrentWrites == 1
MaxOps == 4
MaxLate == 2

\* ------------------------------------------------------- program constants
\* DefaultTTL: the context carries no ttl, config.TimeToLive is used.
DefaultTTL == 0
\* UnlimitedTTL = time.Duration(-1).
UnlimitedTTL == -1
\* 5 * time.Minute, the TimeToLive newTrait puts for 0.
DefaultTimeToLive == 20
\* 24 * time.Hour, the DeleteExpiredAfter newTrait puts for 0.
DefaultDeleteExpiredAfter == 5760
\* 0.1, the ExpirationJitter newTrait puts for 0 (percent).
DefaultExpirationJitter == 10
\* 0.1, the fraction evictOldest uses for EvictFraction 0 (percent).
DefaultEvictFraction == 10

Keys == 1..NumKeys
Values == 1..NumValues
TickStep == DefaultTimeToLive \div 2
\* rand.Float64() is in [0, 1): the samples, in percent.
RandPct == {0, 50, 99}

NoEntry == [found |-> FALSE]
NoRet == [op |-> "none"]

VARIABLES
    options,    \* the Config NewSyncMap's options made
    cfg,        \* trait.Config, as newTrait completed it (immutable)
    now,        \* time.Now()
    data,       \* syncMap.data: key -> *entry or NoEntry
    ret,        \* what the last call returned (NoRet once anything else ran)
    hist,       \* per key: the last Write and what touched the key since
    jpc,        \* janitor goroutine: where it stands
    jBoundary,  \* janitor: expirationBoundary of the pass
    jTodo,      \* janitor: keys the running Range has not visited yet
    jEntries,   \* evictOldest: entries (key, expireAt), sorted once collected
    jEvict,     \* evictOldest: evictItems
    jI,         \* evictOldest: i of the delete loop
    acct,       \* the operations counted (only where acct.on)
    dumped,     \* what the last Dump wrote to its io.Writer, and of what
    life,       \* trait.Closed, the finalizer, the items-count reporter
    held,       \* an errExpired a caller kept, and the entry it points to
    jPass       \* the pass as observed: Len() at its start, Writes and
                \* mutations by callers while it ran, Len() at the snapshot

vars == <<options, cfg, now, data, ret, hist, jpc, jBoundary, jTodo, jEntries, jEvict, jI, jPass,
          acct, dumped, life, held>>
jvars == <<jpc, jBoundary, jTodo, jEntries, jEvict, jI>>

\* ------------------------------------------------------------ arithmetic
\* Go's float64 -> integer conversion: the fraction is dropped (toward zero).
Trunc(num, den) == IF num >= 0 THEN num \div den ELSE -((-num) \div den)

\* ---------------------------------------------------------------- config
Config(ttl, jitter, dea, cnt, frac, heap) ==
    [TimeToLive |-> ttl, ExpirationJitter |-> jitter, DeleteExpiredAfter |-> dea,
     CountSoftLimit |-> cnt, EvictFraction |-> frac, HeapInUseSoftLimit |-> heap]

\* newTrait: zero fields get their defaults.
newTrait(config) ==
    [config EXCEPT
        !.DeleteExpiredAfter = IF @ = 0 THEN DefaultDeleteExpiredAfter ELSE @,
        !.ExpirationJitter = IF @ = 0 THEN DefaultExpirationJitter ELSE @,
        !.TimeToLive = IF @ = 0 THEN DefaultTimeToLive ELSE @]

\* ------------------------------------------------------- request context
Ctx(skip, ttl) == [skipRead |-> skip, ttl |-> ttl]
\* SkipRead(ctx): the skip-read flag of the context.
SkipRead(ctx) == ctx.skipRead
\* TTL(ctx): the ttl of the context, DefaultTTL when none was set.
CtxTTL(ctx) == ctx.ttl

\* ------------------------------------------------------------------ trait
\* trait.TTL with rand.Float64() = rnd / 100.
traitTTL(ctx, rnd) ==
    LET ttl0 == IF CtxTTL(ctx) = DefaultTTL THEN cfg.TimeToLive ELSE CtxTTL(ctx)
    IN  IF cfg.ExpirationJitter > 0
        THEN ttl0 + Trunc(ttl0 * cfg.ExpirationJitter * (rnd - 50), 10000)
        ELSE ttl0

\* time.Time.Before
Before(t, u) == t < u

\* A prepareRead that takes an entry for expired from its expiration instant
\* on (!E.After(now) for E.Before(now)).
prepareReadNotAfter(cacheEntry, found) ==
    IF ~found
    THEN [val |-> 0, err |-> "ErrNotFound", entry |-> NoEntry]
    ELSE IF cacheEntry.E <= now
         THEN [val |-> 0, err |-> "ErrExpired", entry |-> cacheEntry]
         ELSE [val |-> cacheEntry.V, err |-> "nil", entry |-> NoEntry]

\* trait.prepareRead: (value, error); errExpired carries the entry.
prepareRead(cacheEntry, found) ==
    IF ~found
    THEN [val |-> 0, err |-> "ErrNotFound", entry |-> NoEntry]
    ELSE IF Before(cacheEntry.E, now)
         THEN [val |-> 0, err |-> "ErrExpired", entry |-> cacheEntry]
         ELSE [val |-> cacheEntry.V, err |-> "nil", entry |-> NoEntry]

\* ------------------------------------------------------------------ store
\* The key bytes: key 1 is the empty key, key k > 1 is the one byte k - 1.
KeyBytes(k) == IF k = 1 THEN <<>> ELSE <<k - 1>>
\* string(K) as a key of the sync.Map; NoKey when the map has no such key.
NoKey == 0
KeyOf(bytes) ==
    IF \E k \in Keys : KeyBytes(k) = bytes
    THEN CHOOSE k \in Keys : KeyBytes(k) = bytes
    ELSE NoKey

\* &entry{V: v, K: key, E: e}, key a copy of the bytes of k.
Entry(k, v, e) == [found |-> TRUE, K |-> KeyBytes(k), V |-> v, E |-> e]
Present == {k \in Keys : data[k].found}
\* A Len that passes over the expired entries.
syncMapLenLive == Cardinality({k \in Present : ~Before(data[k].E, now)})

\* syncMap.Len
syncMapLen == Cardinality(Present)

\* hist[k], kept for the properties only:
\*   st    "never" (no Write(k) yet), "written" (a Write(k), and neither
\*         Delete(k) nor DeleteAll since), "deleted" (Delete(k) came after the
\*         last Write(k)), "cleared" (DeleteAll did) or "restored" (a
\*         Restore stored the key since)
\*   w     the value of that last Write(k)
\*   nexp  its instant plus its nominal ttl (the ttl before jitter)
\*   eexp  the expiration the entry got: from that Write, or from ExpireAll
\*   unl   it asked for unlimited lifetime
\*   over  it replaced an entry that held another value
\*   gone  the janitor removed the entry since
\*   exp   ExpireAll rewrote the entry's expiration since
NoHist ==
    [st |-> "never", w |-> 0, nexp |-> 0, eexp |-> 0, unl |-> FALSE, over |-> FALSE,
     gone |-> FALSE, exp |-> FALSE]
Deleted == [NoHist EXCEPT !.st = "deleted"]
Cleared == [NoHist EXCEPT !.st = "cleared"]
Restored == [NoHist EXCEPT !.st = "restored"]
Gone(h) ==
    [NoHist EXCEPT !.st = h.st, !.w = h.w, !.eexp = h.eexp, !.exp = h.exp,
                   !.gone = (h.st = "written")]
\* jPass, kept for the properties only: n0 is Len() when the pass began, n is
\* Len() when evictOldest began, cw counts the Writes and mut tells of any
\* mutation by a caller since the pass began, evicted tells that pressure
\* made the pass call evictOldest, heap is the HeapInuse the pass read (0 if
\* it read none, no heap limit being set), wr holds the keys a Write stored an
\* entry for since the pass last read the key's entry.
NoPass ==
    [n0 |-> 0, n |-> 0, cw |-> 0, mut |-> FALSE, evicted |-> FALSE, heap |-> 0,
     wr |-> {}]
\* A caller's mutation while the janitor is inside a pass is concurrent with it.
InPass == jpc \notin {"wait", "closed"}
Touch(isWrite) ==
    IF InPass
    THEN [jPass EXCEPT !.mut = TRUE, !.cw = IF isWrite THEN @ + 1 ELSE @]
    ELSE jPass

\* jPass after a Write of k, and after the pass read the entry of k.
Wrote(k) == [Touch(TRUE) EXCEPT !.wr = IF InPass THEN @ \cup {k} ELSE @]
Examined(k) == [jPass EXCEPT !.wr = @ \ {k}]

\* acct, kept for the properties only: the calls and removals so far.
\*   writes   Write calls             created  of them, those that added a key
\*   deletes  Delete calls            removed  of them, those that found an entry
\*   cleared  entries DeleteAll removed
\*   reclaimed  entries the janitor removed (expired or evicted)
\*   restored   keys Restore added
NoAcct ==
    [on |-> FALSE, writes |-> 0, created |-> 0, deletes |-> 0, removed |-> 0,
     cleared |-> 0, reclaimed |-> 0, restored |-> 0]
Counted(fields, n) ==
    IF acct.on
    THEN [f \in DOMAIN acct |-> IF f \in fields THEN acct[f] + n ELSE acct[f]]
    ELSE acct

\* held, the errExpired a caller kept from a Read: has tells there is one,
\* key is the key read, V0 and E0 are what Value() and ExpiredAt() gave when Read
\* returned, V and E what they give now, inMap tells that the *entry the error
\* points to is still the one the map holds for key.
NoHeld == [has |-> FALSE]

\* errExpired{entry: cacheEntry} holds the pointer the map holds: Value() and
\* ExpiredAt() read the entry as it is now.  A call that stores another entry
\* for the key (replaced) or deletes the key leaves the error its own entry.
HeldAfter(replaced) ==
    IF ~held.has THEN held
    ELSE IF ~held.inMap THEN held
    ELSE IF held.key \in replaced \/ ~data'[held.key].found
         THEN [held EXCEPT !.inMap = FALSE]
         ELSE [held EXCEPT !.V = data'[held.key].V, !.E = data'[held.key].E]

\* A Read that does not look at the skip-read flag.
ReadResultNoSkip(ctx, key) ==
    IF data[key].found
    THEN prepareRead(data[key], TRUE)
    ELSE prepareRead(NoEntry, FALSE)

\* syncMap.Read: what it returns.
ReadResult(ctx, key) ==
    IF SkipRead(ctx)
    THEN [val |-> 0, err |-> "ErrNotFound", entry |-> NoEntry]
    ELSE IF data[key].found
         THEN prepareRead(data[key], TRUE)
         ELSE prepareRead(NoEntry, FALSE)

\* A Read that deletes the entry it found expired.
ReadDropsExpired(ctx, key) ==
    /\ ret' = [op |-> "Read", key |-> key, skip |-> SkipRead(ctx), res |-> ReadResult(ctx, key)]
    /\ data' = IF ReadResult(ctx, key).err = "ErrExpired"
               THEN [data EXCEPT ![key] = NoEntry] ELSE data
    /\ UNCHANGED <<acct, life, options, cfg, dumped, now, hist, jvars, jPass>>
    /\ held' = HeldAfter({})

\* syncMap.Read
Read(ctx, key) ==
    /\ ret' = [op |-> "Read", key |-> key, skip |-> SkipRead(ctx), res |-> ReadResult(ctx, key)]
    /\ UNCHANGED <<held, acct, life, options, cfg, dumped, now, data, hist, jvars, jPass>>

\* The caller keeps the error the Read just returned.
Keep ==
    /\ ~held.has
    /\ ret.op = "Read"
    /\ ret.res.err = "ErrExpired"
    /\ held' = [has |-> TRUE, key |-> ret.key, inMap |-> TRUE,
                V0 |-> ret.res.entry.V, E0 |-> ret.res.entry.E,
                V |-> ret.res.entry.V, E |-> ret.res.entry.E]
    /\ UNCHANGED <<acct, life, options, cfg, dumped, now, data, ret, hist, jvars, jPass>>

\* What a Write(ctx, k, v) puts in hist, ttl being what trait.TTL gave it.
Written(ctx, k, v, ttl) ==
    [st |-> "written", w |-> v,
     nexp |-> now + (IF CtxTTL(ctx) = DefaultTTL THEN cfg.TimeToLive ELSE CtxTTL(ctx)),
     eexp |-> now + ttl,
     unl |-> \/ CtxTTL(ctx) = UnlimitedTTL
             \/ CtxTTL(ctx) = DefaultTTL /\ options.TimeToLive = UnlimitedTTL,
     over |-> data[k].found /\ data[k].V # v,
     gone |-> FALSE, exp |-> FALSE]

\* A Write that keeps the entry the key already has (LoadOrStore for Store).
WriteIfAbsent(ctx, k, v, rnd) ==
    LET ttl == traitTTL(ctx, rnd)
    IN  /\ data' = [data EXCEPT ![k] = IF @.found THEN @ ELSE Entry(k, v, now + ttl)]
        /\ InPass => jPass.cw < MaxConcurrentWrites
        /\ hist' = [hist EXCEPT ![k] = Written(ctx, k, v, ttl)]
        /\ ret' = NoRet
        /\ jPass' = Wrote(k)
        /\ acct' = Counted(IF data[k].found THEN {"writes"} ELSE {"writes", "created"}, 1)
        /\ UNCHANGED <<life, options, cfg, dumped, now, jvars>>
        /\ held' = HeldAfter({k})

\* syncMap.Write
Write(ctx, k, v, rnd) ==
    LET ttl == traitTTL(ctx, rnd)
    IN  /\ data' = [data EXCEPT ![k] = Entry(k, v, now + ttl)]
        /\ InPass => jPass.cw < MaxConcurrentWrites
        /\ hist' = [hist EXCEPT ![k] = Written(ctx, k, v, ttl)]
        /\ ret' = NoRet
        /\ jPass' = Wrote(k)
        /\ acct' = Counted(IF data[k].found THEN {"writes"} ELSE {"writes", "created"}, 1)
        /\ UNCHANGED <<life, options, cfg, dumped, now, jvars>>
        /\ held' = HeldAfter({k})

\* A Delete that leaves the map as it is.
DeleteNothing(ctx, key) ==
    /\ hist' = [hist EXCEPT ![key] = IF @.st = "never" THEN @ ELSE Deleted]
    /\ ret' = [op |-> "Delete", key |-> key, err |-> "nil", had |-> data[key].found]
    /\ jPass' = Touch(FALSE)
    /\ acct' = Counted(IF data[key].found THEN {"deletes", "removed"} ELSE {"deletes"}, 1)
    /\ UNCHANGED <<held, life, options, cfg, dumped, now, data, jvars>>

\* syncMap.Delete
Delete(ctx, key) ==
    /\ data' = [data EXCEPT ![key] = NoEntry]
    /\ hist' = [hist EXCEPT ![key] = IF @.st = "never" THEN @ ELSE Deleted]
    /\ ret' = [op |-> "Delete", key |-> key, err |-> "nil", had |-> data[key].found]
    /\ jPass' = Touch(FALSE)
    /\ acct' = Counted(IF data[key].found THEN {"deletes", "removed"} ELSE {"deletes"}, 1)
    /\ UNCHANGED <<life, options, cfg, dumped, now, jvars>>
    /\ held' = HeldAfter({})

\* syncMap.ExpireAll
ExpireAll ==
    LET start == now
    IN  /\ data' = [k \in Keys |-> IF data[k].found THEN [data[k] EXCEPT !.E = start]
                                   ELSE data[k]]
        /\ hist' = [k \in Keys |-> IF data[k].found
                                   THEN [hist[k] EXCEPT !.exp = TRUE, !.eexp = start]
                                   ELSE hist[k]]
        /\ ret' = NoRet
        /\ jPass' = Touch(FALSE)
        /\ UNCHANGED <<acct, life, options, cfg, dumped, now, jvars>>
        /\ held' = HeldAfter({})

\* syncMap.DeleteAll
DeleteAll ==
    /\ data' = [k \in Keys |-> NoEntry]
    /\ hist' = [k \in Keys |-> IF hist[k].st = "written" THEN Cleared ELSE hist[k]]
    /\ ret' = NoRet
    /\ jPass' = Touch(FALSE)
    /\ acct' = Counted({"cleared"}, syncMapLen)
    /\ UNCHANGED <<life, options, cfg, dumped, now, jvars>>
    /\ held' = HeldAfter({})

\* time.Now() moves on.
Tick ==
    /\ now + TickStep <= MaxTicks * TickStep
    /\ now' = now + TickStep
    /\ ret' = NoRet
    /\ UNCHANGED <<held, acct, life, options, cfg, dumped, data, hist, jvars, jPass>>

\* ------------------------------------------------------- walk, dump, restore
\* What Walk hands to walkFn for an entry: Key(), Value(), ExpireAt().
Triple(entry) == [K |-> entry.K, V |-> entry.V, E |-> entry.E]
\* The entries of the map, as a Walk sees them (a bag: key |-> triple).
Triples == [k \in Present |-> Triple(data[k])]

\* sync.Map.Range: the orders it may visit the present keys in.
RangeOrders ==
    {o \in [1..Cardinality(Present) -> Present] :
        \A i, j \in 1..Cardinality(Present) : i # j => o[i] # o[j]}

\* A Walk that counts the call that failed (n++ before the error is looked at).
WalkRunCountsFailed(o, failAt) ==
    IF failAt \in 1..Len(o)
    THEN [calls |-> SubSeq(o, 1, failAt), n |-> failAt, err |-> "error"]
    ELSE [calls |-> o, n |-> Len(o), err |-> "nil"]

\* Walk over the entries in the order o, walkFn failing at its call failAt
\* (0: never): the calls made, n and the error.
WalkRun(o, failAt) ==
    IF failAt \in 1..Len(o)
    THEN [calls |-> SubSeq(o, 1, failAt), n |-> failAt - 1, err |-> "error"]
    ELSE [calls |-> o, n |-> Len(o), err |-> "nil"]

\* syncMap.Walk
Walk(failAt) ==
    /\ \E o \in RangeOrders :
          ret' = [op |-> "Walk", failAt |-> failAt, run |-> WalkRun(o, failAt)]
    /\ UNCHANGED <<held, life, options, cfg, dumped, now, data, hist, jvars, jPass, acct>>

\* encoding/gob, Encoder.Encode of an entry: one record.  A field holding the
\* zero value of its type is not transmitted: the empty key is left out.
GobEncode(entry) ==
    [hasK |-> Len(entry.K) > 0, K |-> entry.K, V |-> entry.V, E |-> entry.E]

NoDump == [stream |-> <<>>, of |-> <<>>, written |-> FALSE]

\* SyncMap.Dump: Walk with walkFn = encoder.Encode, the io.Writer failing at
\* its record failAt (0: never).  dumped keeps the records written and the
\* entries the map held (of), written telling that Writes alone made them.
Dump(failAt) ==
    /\ \E o \in RangeOrders :
          LET run == WalkRun(o, failAt)
          IN  /\ ret' = [op |-> "Dump", failAt |-> failAt, run |-> run]
              /\ dumped' = [stream |-> [i \in 1..run.n |-> GobEncode(data[o[i]])],
                            of |-> Triples,
                            written |-> \A k \in Present : hist[k].st = "written"]
    /\ UNCHANGED <<held, life, options, cfg, now, data, hist, jvars, jPass, acct>>

\* The variable e of Restore before its loop: the zero entry, K a nil slice.
\* buf is the array under e.K (cap bytes), len the length of e.K; ents are
\* the entries stored so far: key is the map key string(e.K) they were stored
\* under, K their own key field (l bytes), shared telling that K still lies
\* in the array under e.K (e := e copies the slice header, not the bytes).
NoDecoded == [buf |-> <<>>, len |-> 0, V |-> 0, E |-> 0, ents |-> <<>>]

\* encoding/gob, Decoder.Decode(&e) of a record into the e of the last turn:
\* a []byte field is read into the slice it finds when the capacity is
\* enough, else into a new array; a field the record left out stays as is.
GobDecode(st, rec) ==
    LET n == Len(rec.K)
        fresh == rec.hasK /\ Len(st.buf) < n
        buf == IF ~rec.hasK THEN st.buf
               ELSE IF fresh THEN rec.K
               ELSE rec.K \o SubSeq(st.buf, n + 1, Len(st.buf))
    IN  [buf |-> buf,
         len |-> IF rec.hasK THEN n ELSE st.len,
         V |-> rec.V,
         E |-> rec.E,
         ents |-> [i \in 1..Len(st.ents) |->
                     IF st.ents[i].shared
                     THEN [st.ents[i] EXCEPT !.shared = ~fresh,
                                             !.K = IF fresh THEN @ ELSE SubSeq(buf, 1, st.ents[i].l)]
                     ELSE st.ents[i]]]

\* e := e; c.data.Store(string(e.K), &e)
StoreDecoded(st) ==
    LET key == SubSeq(st.buf, 1, st.len)
    IN  [st EXCEPT !.ents = Append(@, [key |-> key, l |-> st.len, K |-> key,
                                       V |-> st.V, E |-> st.E, shared |-> TRUE])]

\* The loop of Restore from record i on, Decode failing at record failAt
\* (0: never; a damaged record fails before any field of e is set).
RECURSIVE RestoreLoop(_, _, _, _)
RestoreLoop(stream, i, failAt, st) ==
    IF i > Len(stream) THEN [ents |-> st.ents, n |-> i - 1, err |-> "nil"]
    ELSE IF i = failAt THEN [ents |-> st.ents, n |-> i - 1, err |-> "error"]
    ELSE RestoreLoop(stream, i + 1, failAt, StoreDecoded(GobDecode(st, stream[i])))

\* The map after the Stores of ents on the map d: the last Store of a key wins.
Stored(d, ents) ==
    [k \in Keys |->
        LET is == {i \in 1..Len(ents) : KeyOf(ents[i].key) = k}
        IN  IF is = {} THEN d[k]
            ELSE LET last == ents[CHOOSE i \in is : \A j \in is : j <= i]
                 IN  [found |-> TRUE, K |-> last.K, V |-> last.V, E |-> last.E]]

\* SyncMap.Restore reading stream.
RestoreRun(d, stream, failAt) ==
    LET run == RestoreLoop(stream, 1, failAt, NoDecoded)
    IN  [data |-> Stored(d, run.ents), n |-> run.n, err |-> run.err,
         keys |-> {KeyOf(run.ents[i].key) : i \in 1..Len(run.ents)}]

\* SyncMap.Restore from the bytes of the last Dump.
Restore(failAt) ==
    LET run == RestoreRun(data, dumped.stream, failAt)
    IN  /\ data' = run.data
        /\ ret' = [op |-> "Restore", failAt |-> failAt, n |-> run.n, err |-> run.err,
                   before |-> data]
        /\ hist' = [k \in Keys |-> IF k \in run.keys THEN Restored ELSE hist[k]]
        /\ jPass' = Touch(FALSE)
        /\ acct' = Counted({"restored"}, Cardinality(run.keys \ Present))
        /\ UNCHANGED <<life, options, cfg, dumped, now, jvars>>
        /\ held' = HeldAfter(run.keys)

\* The clock moves on by d, a step or DefaultDeleteExpiredAfter (a day), up to
\* a day and MaxTicks + 1 steps after the start.
TickBy(d) ==
    /\ now + d <= DefaultDeleteExpiredAfter + (MaxTicks + 1) * TickStep
    /\ (now + d) % DefaultDeleteExpiredAfter <= (MaxTicks + 1) * TickStep
    /\ now' = now + d
    /\ ret' = NoRet
    /\ UNCHANGED <<held, acct, life, options, cfg, dumped, data, hist, jvars, jPass>>

\* --------------------------------------------------------------- janitor
\* heapInUseOverflow reads runtime.MemStats only if a heap limit is set.
MemStatsRead(heapInuse) == IF cfg.HeapInUseSoftLimit = 0 THEN 0 ELSE heapInuse

\* syncMap.heapInUseOverflow with runtime.MemStats.HeapInuse = heapInuse.
heapInUseOverflow(heapInuse) ==
    IF cfg.HeapInUseSoftLimit = 0 THEN FALSE
    ELSE heapInuse >= cfg.HeapInUseSoftLimit

\* A countOverflow that does not take CountSoftLimit 0 for no limit.
countOverflowNoZero == syncMapLen >= cfg.CountSoftLimit

\* syncMap.countOverflow
countOverflow ==
    IF cfg.CountSoftLimit = 0 THEN FALSE
    ELSE syncMapLen >= cfg.CountSoftLimit

\* ------------------------------------------------------------- shutdown
\* trait.Closed and the goroutines newTrait starts.  closed: the channel is
\* closed; closes: the close(m.t.Closed) calls so far; fin: the finalizer of
\* the SyncMap ("set", "ran"); rpc: the items-count reporter ("none": not
\* started as config.Stats is nil, "wait": in its select, "done": returned);
\* gauge: the value of the last Stat.Set(MetricItems, ...), -1 if none;
\* finals: the Stat.Set calls of the closed branch; jRace, rRace: the timer
\* of the worker's select had fired when Closed was closed, the goroutine not
\* having run yet; jLate, rLate: the timer branches taken since Closed was
\* closed (counted up to MaxLate).
NoLife ==
    [closed |-> FALSE, closes |-> 0, fin |-> "set", rpc |-> "none",
     gauge |-> -1, finals |-> 0, jRace |-> FALSE, rRace |-> FALSE,
     jLate |-> 0, rLate |-> 0]

\* A select that takes its timer branch whatever the state of closed.
selectTimerAlways(raced) == TRUE

\* select { case <-time.After(interval): ... case <-closed: ... }: the timer
\* branch can be taken.  time.After is evaluated on entering the select and
\* interval > 0, so a select entered after the close finds closed ready and
\* its timer not; a goroutine blocked in the select when Closed is closed
\* takes the timer branch only if that timer had fired before the close.
selectTimer(raced) == ~life.closed \/ raced

\* One more timer branch taken, counted once Closed is closed.
Late(n) == IF ~life.closed THEN n ELSE IF n < MaxLate THEN n + 1 ELSE n

\* The finalizer NewSyncMap sets: close(m.t.Closed).  The runtime runs a
\* finalizer once; nothing else closes the channel.
Finalizer ==
    /\ life.fin = "set"
    /\ life' = [life EXCEPT !.fin = "ran", !.closed = TRUE, !.closes = @ + 1,
                            !.jRace = (jpc = "wait"),
                            !.rRace = (life.rpc = "wait")]
    /\ ret' = NoRet
    /\ UNCHANGED <<held, acct, options, cfg, dumped, now, data, hist, jvars, jPass>>

\* trait.janitor: the closed branch of its select; the goroutine returns.
JanitorClosed ==
    /\ jpc = "wait"
    /\ life.closed
    /\ jpc' = "closed"
    /\ life' = [life EXCEPT !.jRace = FALSE]
    /\ ret' = NoRet
    /\ UNCHANGED <<held, acct, options, cfg, dumped, now, data, hist, jBoundary, jTodo,
                   jEntries, jEvict, jI, jPass>>

\* trait.reportItemsCount: the timer branch, Stat.Set(MetricItems, b.Len())
\* (c.Stat is not nil in a started reporter).
ReporterTick ==
    /\ life.rpc = "wait"
    /\ selectTimer(life.rRace)
    /\ life' = [life EXCEPT !.gauge = syncMapLen, !.rRace = FALSE,
                            !.rLate = Late(@)]
    /\ ret' = NoRet
    /\ UNCHANGED <<held, acct, options, cfg, dumped, now, data, hist, jvars, jPass>>

\* trait.reportItemsCount: the closed branch, a last gauge, then return.
ReporterClosed ==
    /\ life.rpc = "wait"
    /\ life.closed
    /\ life' = [life EXCEPT !.gauge = syncMapLen, !.finals = @ + 1,
                            !.rpc = "done", !.rRace = FALSE]
    /\ ret' = NoRet
    /\ UNCHANGED <<held, acct, options, cfg, dumped, now, data, hist, jvars, jPass>>

\* trait.janitor: time.After(interval) fires; the pass computes its boundary
\* and deleteExpiredBefore starts its Range.
JanitorTick ==
    /\ jpc = "wait"
    /\ selectTimer(life.jRace)
    /\ life' = [life EXCEPT !.jRace = FALSE, !.jLate = Late(@)]
    /\ jpc' = "reclaim"
    /\ jBoundary' = now - cfg.DeleteExpiredAfter
    /\ jTodo' = Keys
    /\ jPass' = [NoPass EXCEPT !.n0 = syncMapLen]
    /\ ret' = NoRet
    /\ UNCHANGED <<held, acct, options, cfg, dumped, now, data, hist, jEntries, jEvict, jI>>

\* sync.Map.Range visits every key once, in no specified order.  A visit
\* touches its own key only, callers act between any two visits, and the
\* collected entries are sorted afterwards (SortSlice yields every ascending
\* order), so the model takes the keys in ascending order.
RangeNext(todo) == CHOOSE k \in todo : \A j \in todo : k <= j

\* A Range callback that deletes nothing.
deleteExpiredVisitKeep(k) == UNCHANGED <<data, hist, acct>>

\* deleteExpiredBefore: the Range callback on one key, no call running between
\* its test and its Delete (JanitorExamine and JanitorDelete are the two apart).
deleteExpiredVisit(k) ==
    IF data[k].found /\ Before(data[k].E, jBoundary)
    THEN /\ data' = [data EXCEPT ![k] = NoEntry]
         /\ hist' = [hist EXCEPT ![k] = Gone(@)]
         /\ acct' = Counted({"reclaimed"}, 1)
    ELSE UNCHANGED <<data, hist, acct>>

JanitorReclaim(k) ==
    /\ jpc = "reclaim"
    /\ k \in jTodo
    /\ k = RangeNext(jTodo)
    /\ deleteExpiredVisit(k)
    /\ jTodo' = jTodo \ {k}
    /\ ret' = NoRet
    /\ UNCHANGED <<life, options, cfg, dumped, now, jpc, jBoundary, jEntries, jEvict, jI, jPass>>
    /\ held' = HeldAfter({})

\* deleteExpiredBefore, the Range callback on one key as other goroutines see
\* it: first the test of the entry Range handed it, cacheEntry.E.Before(...).
JanitorExamine(k) ==
    /\ jpc = "reclaim"
    /\ k \in jTodo
    /\ k = RangeNext(jTodo)
    /\ IF data[k].found /\ Before(data[k].E, jBoundary)
       THEN jpc' = "delete" /\ jTodo' = jTodo
       ELSE jpc' = "reclaim" /\ jTodo' = jTodo \ {k}
    /\ jPass' = Examined(k)
    /\ ret' = NoRet
    /\ UNCHANGED <<held, acct, life, options, cfg, dumped, now, data, hist, jBoundary,
                   jEntries, jEvict, jI>>

\* deleteExpiredBefore, the Range callback: then c.data.Delete(key), of
\* whatever entry the map holds for the key by now.
JanitorDelete ==
    /\ jpc = "delete"
    /\ LET k == RangeNext(jTodo)
       IN  /\ IF data[k].found
              THEN /\ data' = [data EXCEPT ![k] = NoEntry]
                   /\ hist' = [hist EXCEPT ![k] = Gone(@)]
                   /\ acct' = Counted({"reclaimed"}, 1)
              ELSE UNCHANGED <<data, hist, acct>>
           /\ jTodo' = jTodo \ {k}
    /\ jpc' = "reclaim"
    /\ ret' = NoRet
    /\ UNCHANGED <<life, options, cfg, dumped, now, jBoundary, jEntries, jEvict, jI, jPass>>
    /\ held' = HeldAfter({})

\* deleteExpiredBefore after its Range: evictOldest under pressure.
JanitorPressure(heapInuse) ==
    /\ jpc = "reclaim"
    /\ jTodo = {}
    /\ IF heapInUseOverflow(heapInuse) \/ countOverflow
       THEN /\ jpc' = "collect"
            /\ jTodo' = Keys
            /\ jPass' = [jPass EXCEPT !.evicted = TRUE, !.n = syncMapLen,
                                      !.heap = MemStatsRead(heapInuse)]
       ELSE /\ jpc' = "done"
            /\ jPass' = [jPass EXCEPT !.heap = MemStatsRead(heapInuse)]
            /\ UNCHANGED jTodo
    /\ ret' = NoRet
    /\ UNCHANGED <<held, acct, life, options, cfg, dumped, now, data, hist, jBoundary, jEntries, jEvict, jI>>

\* evictOldest: the collecting Range's callback on one key.
JanitorCollect(k) ==
    /\ jpc = "collect"
    /\ k \in jTodo
    /\ k = RangeNext(jTodo)
    /\ jTodo' = jTodo \ {k}
    /\ jEntries' = IF data[k].found
                   THEN Append(jEntries, [key |-> data[k].K, expireAt |-> data[k].E])
                   ELSE jEntries
    /\ ret' = NoRet
    /\ jPass' = Examined(k)
    /\ UNCHANGED <<held, acct, life, options, cfg, dumped, now, data, hist, jpc, jBoundary, jEvict, jI>>

\* sort.Slice with less = expireAt.Before: any ordering of the entries that
\* is ascending by expireAt (the sort is not stable).
Sorted(seq) ==
    \A i \in 1..Len(seq) : \A j \in 1..Len(seq) :
        i < j => ~Before(seq[j].expireAt, seq[i].expireAt)

\* A sort that leaves the entries in the order Range gave them.
SortSliceNoSort(seq) == {seq}

SortSlice(seq) ==
    {s \in [1..Len(seq) -> {seq[i] : i \in 1..Len(seq)}] :
        /\ Sorted(s)
        /\ \E p \in Permutations(1..Len(seq)) : \A i \in 1..Len(seq) : s[i] = seq[p[i]]}

\* An evictItems that is one short.
evictItemsOneShort(n) ==
    LET evictFraction == IF cfg.EvictFraction = 0 THEN DefaultEvictFraction
                         ELSE cfg.EvictFraction
    IN  Trunc(n * evictFraction, 100) - 1

\* evictItems := int(float64(len(entries)) * evictFraction)
evictItems(n) ==
    LET evictFraction == IF cfg.EvictFraction = 0 THEN DefaultEvictFraction
                         ELSE cfg.EvictFraction
    IN  Trunc(n * evictFraction, 100)

\* evictOldest between its Range and its delete loop.
JanitorSort ==
    /\ jpc = "collect"
    /\ jTodo = {}
    /\ \E s \in SortSlice(jEntries) : jEntries' = s
    /\ jEvict' = evictItems(Len(jEntries))
    /\ jI' = 0
    /\ jpc' = IF evictItems(Len(jEntries)) > 0 THEN "evict" ELSE "done"
    /\ ret' = NoRet
    /\ UNCHANGED <<held, acct, life, options, cfg, dumped, now, data, hist, jBoundary, jTodo, jPass>>

\* evictOldest: one turn of the delete loop, c.data.Delete(entries[i].key).
JanitorEvict ==
    /\ jpc = "evict"
    /\ jI < jEvict
    /\ LET k == KeyOf(jEntries[jI + 1].key)
       IN  IF k \in Keys /\ data[k].found
           THEN /\ data' = [data EXCEPT ![k] = NoEntry]
                /\ hist' = [hist EXCEPT ![k] = Gone(@)]
                /\ acct' = Counted({"reclaimed"}, 1)
           ELSE UNCHANGED <<data, hist, acct>>
    /\ jI' = jI + 1
    /\ jpc' = IF jI + 1 < jEvict THEN "evict" ELSE "done"
    /\ ret' = NoRet
    /\ UNCHANGED <<life, options, cfg, dumped, now, jBoundary, jTodo, jEntries, jEvict, jPass>>
    /\ held' = HeldAfter({})

\* trait.janitor: back to the select of its loop.
JanitorLoop ==
    /\ jpc = "done"
    /\ jpc' = "wait"
    /\ jBoundary' = 0
    /\ jTodo' = {}
    /\ jEntries' = <<>>
    /\ jEvict' = 0
    /\ jI' = 0
    /\ jPass' = NoPass
    /\ ret' = NoRet
    /\ UNCHANGED <<held, acct, life, options, cfg, dumped, now, data, hist>>

Janitor ==
    \/ JanitorTick
    \/ \E k \in Keys : JanitorReclaim(k)
    \/ \E h \in {0, 1} : JanitorPressure(h)
    \/ \E k \in Keys : JanitorCollect(k)
    \/ JanitorSort
    \/ JanitorEvict
    \/ JanitorLoop

\* ---------------------------------------------------------- specifications
\* NewSyncMap with config: the map is empty, the janitor waits for its timer.
InitStore(configs) ==
    /\ options \in configs
    /\ cfg = newTrait(options)
    /\ now = 0
    /\ data = [k \in Keys |-> NoEntry]
    /\ ret = NoRet
    /\ hist = [k \in Keys |-> NoHist]
    /\ jpc = "wait"
    /\ jBoundary = 0
    /\ jTodo = {}
    /\ jEntries = <<>>
    /\ jEvict = 0
    /\ jI = 0
    /\ jPass = NoPass
    /\ dumped = NoDump
    /\ held = NoHeld

\* Nothing is counted; config.Stats is nil, so no reporter is started.
InitWith(configs) ==
    /\ InitStore(configs)
    /\ acct = NoAcct
    /\ life = NoLife

\* Spec: the callers' operations in one total order, with whole janitor
\* passes between them (no call runs while a pass is under way).
CallKeys == 1..NumCallKeys
CtxTTLs == {DefaultTTL, UnlimitedTTL}
Configs ==
    {Config(ttl, -100, TickStep, 2, 50, 0) : ttl \in {0, UnlimitedTTL}}

Init == InitWith(Configs)

CallsWith(ttls) ==
    \/ \E k \in CallKeys, s \in BOOLEAN : Read(Ctx(s, DefaultTTL), k)
    \/ \E k \in CallKeys, v \in Values, t \in ttls, r \in RandPct :
          Write(Ctx(FALSE, t), k, v, r)
    \/ \E k \in CallKeys : Delete(Ctx(FALSE, DefaultTTL), k)
    \/ ExpireAll
    \/ DeleteAll

Next ==
    \/ jpc = "wait" /\ CallsWith(CtxTTLs)
    \/ jpc = "wait" /\ Tick
    \/ Janitor

Spec == Init /\ [][Next]_vars

\* SpecTTL: as Spec, on caches configured with ExpirationJitter 0 and -1
\* (jitter off) and the default TimeToLive, the calls giving a ttl or none.
TTLConfigs ==
    {Config(0, jitter, TickStep, 2, 50, 0) : jitter \in {0, -100}}

InitTTL == InitWith(TTLConfigs)

NextTTL ==
    \/ jpc = "wait" /\ CallsWith({DefaultTTL, TickStep})
    \/ jpc = "wait" /\ Tick
    \/ Janitor

SpecTTL == InitTTL /\ [][NextTTL]_vars

\* SpecLen: the calls and the removals are counted, up to MaxOps Writes and
\* Deletes.
LenConfigs == {Config(0, -100, TickStep, 2, 50, 0)}

InitLen ==
    /\ InitStore(LenConfigs)
    /\ acct = [NoAcct EXCEPT !.on = TRUE]
    /\ life = NoLife

NextLen ==
    \/ /\ jpc = "wait" /\ acct.writes + acct.deletes < MaxOps
       /\ \E k \in CallKeys : Write(Ctx(FALSE, DefaultTTL), k, 1, 50)
    \/ /\ jpc = "wait" /\ acct.writes + acct.deletes < MaxOps
       /\ \E k \in CallKeys : Delete(Ctx(FALSE, DefaultTTL), k)
    \/ jpc = "wait" /\ DeleteAll
    \/ jpc = "wait" /\ Tick
    \/ Janitor

SpecLen == InitLen /\ [][NextLen]_vars

\* SpecDump: Walk, Dump and Restore on a cache with no soft limit, between
\* Writes and DeleteAll, all at one instant; walkFn, the io.Writer and the
\* decoding may fail at any record.
DumpConfigs == {Config(0, -100, TickStep, 0, 0, 0)}

InitDump == InitWith(DumpConfigs)

FailAts == 0..NumKeys

NextDump ==
    \/ \E k \in Keys : Write(Ctx(FALSE, DefaultTTL), k, 1, 50)
    \/ DeleteAll
    \/ \E f \in FailAts : Walk(f)
    \/ \E f \in FailAts : Dump(f)
    \/ \E f \in FailAts : Restore(f)

SpecDump == InitDump /\ [][NextDump]_vars

\* SpecLive: caches configured with DeleteExpiredAfter 0, with and without a
\* CountSoftLimit.  Writes and ExpireAll come in the first MaxTicks steps,
\* the clock runs on for a day and more.  The clock advances and the
\* janitor's timer fires and its pass proceeds (it takes no lock a caller
\* could hold for ever): weak fairness on both.
CloseConfigs == {Config(0, -100, TickStep, 2, 50, 0)}

\* newTrait starts the reporter if config.Stats is not nil, and the janitor.
InitClose ==
    /\ InitStore(CloseConfigs)
    /\ acct = NoAcct
    /\ life \in {NoLife, [NoLife EXCEPT !.rpc = "wait"]}

\* The finalizer runs once no caller holds the SyncMap: no call follows it.
NextClose ==
    \/ /\ life.fin = "set"
       /\ \E k \in Keys : Write(Ctx(FALSE, DefaultTTL), k, 1, 50)
    \/ Finalizer
    \/ Janitor
    \/ JanitorClosed
    \/ ReporterTick
    \/ ReporterClosed

\* The scheduler runs a goroutine that can run.
SpecClose ==
    /\ InitClose
    /\ [][NextClose]_vars
    /\ WF_vars(Janitor \/ JanitorClosed)
    /\ WF_vars(ReporterTick \/ ReporterClosed)

\* SpecPressure: the callers' Writes and whole janitor passes in one total
\* order, on caches with and without a count limit and a heap limit, the
\* heap in use read by a pass being below, at or above the limit.
HeapReadings == 0..2
PressureConfigs ==
    {Config(0, -100, TickStep, cnt, 50, heap) : cnt \in {0, 2}, heap \in {0, 1}}

InitPressure == InitWith(PressureConfigs)

NextPressure ==
    \/ /\ jpc = "wait"
       /\ \E k \in Keys, t \in {DefaultTTL, TickStep} :
              Write(Ctx(FALSE, t), k, 1, 50)
    \/ jpc = "wait" /\ Tick
    \/ JanitorTick
    \/ \E k \in Keys : JanitorReclaim(k)
    \/ \E h \in HeapReadings : JanitorPressure(h)
    \/ \E k \in Keys : JanitorCollect(k)
    \/ JanitorSort
    \/ JanitorEvict
    \/ JanitorLoop

SpecPressure == InitPressure /\ [][NextPressure]_vars

\* SpecCarrier: the calls on one key in one total order, the caller keeping
\* an errExpired a Read returned.
CarrierConfigs == {Config(0, -100, TickStep, 0, 0, 0)}

InitCarrier == InitWith(CarrierConfigs)

NextCarrier ==
    \/ \E k \in CallKeys : Read(Ctx(FALSE, DefaultTTL), k)
    \/ \E k \in CallKeys, v \in Values, t \in {DefaultTTL, TickStep} :
          Write(Ctx(FALSE, t), k, v, 50)
    \/ ExpireAll
    \/ Tick
    \/ Keep

SpecCarrier == InitCarrier /\ [][NextCarrier]_vars

LiveConfigs ==
    {Config(0, -100, 0, cnt, 50, 0) : cnt \in {0, 2}}

InitLive == InitWith(LiveConfigs)

Clock == \E d \in {TickStep, DefaultDeleteExpiredAfter} : TickBy(d)

NextLive ==
    \/ now <= MaxTicks * TickStep
          /\ \E k \in CallKeys : Write(Ctx(FALSE, DefaultTTL), k, 1, 50)
    \/ now <= MaxTicks * TickStep /\ ExpireAll
    \/ Clock
    \/ Janitor

SpecLive == InitLive /\ [][NextLive]_vars /\ WF_vars(Clock) /\ WF_vars(Janitor)

\* SpecJanitor: Writes run concurrently with the janitor's pass, also between
\* the test of an entry and its deletion.
JanitorConfigs ==
    {Config(0, -100, TickStep, 2, frac, 0) : frac \in {0, 50}}

InitJanitor == InitWith(JanitorConfigs)

NextJanitor ==
    \/ \E k \in Keys, t \in {DefaultTTL, TickStep} : Write(Ctx(FALSE, t), k, 1, 50)
    \/ Tick
    \/ JanitorTick
    \/ \E k \in Keys : JanitorExamine(k)
    \/ JanitorDelete
    \/ \E h \in {0, 1} : JanitorPressure(h)
    \/ \E k \in Keys : JanitorCollect(k)
    \/ JanitorSort
    \/ JanitorEvict
    \/ JanitorLoop

SpecJanitor == InitJanitor /\ [][NextJanitor]_vars

\* ------------------------------------------------------------ properties
Hit(v) == [val |-> v, err |-> "nil", entry |-> NoEntry]
\* The last call was a Read of key k without the skip-read flag.
ReadOf(k) == ret.op = "Read" /\ ret.key = k /\ ~ret.skip

\* C1, as claimed: a Read(k) after Write(k, v), before the entry's expiration
\* and with no Delete(k) in between, returns v and no error (so the value of
\* the latest of two Writes); DeleteAll counts as a Delete of every key.
\* Fails: the janitor's eviction removes entries that have not expired.
C1_ReadReturnsLastWrite ==
    \A k \in Keys :
        (ReadOf(k) /\ hist[k].st = "written" /\ now < hist[k].eexp)
            => ret.res = Hit(hist[k].w)

\* C1, amended: a Read(k) after Write(k, v), before the entry's expiration and
\* with no Delete(k), no DeleteAll and no removal of k by the janitor in
\* between, returns v and no error; after Write(k, v1) then Write(k, v2) that
\* is v2.
C1_ReadReturnsLastWriteUnlessRemoved ==
    \A k \in Keys :
        (ReadOf(k) /\ hist[k].st = "written" /\ ~hist[k].gone /\ now < hist[k].eexp)
            => ret.res = Hit(hist[k].w)

\* C1's case: a Read at a later instant of a key whose last Write replaced
\* another value.
C1_Witness ==
    \E k \in Keys :
        /\ ReadOf(k) /\ hist[k].st = "written" /\ ~hist[k].gone /\ now < hist[k].eexp
        /\ hist[k].over /\ now > 0
        /\ ret.res.val = hist[k].w

\* C2: after Write(k, v) then Delete(k), with no later Write(k, _), every
\* Read(k) returns ErrNotFound.
C2_ReadAfterDeleteNotFound ==
    \A k \in Keys :
        (ret.op = "Read" /\ ret.key = k /\ hist[k].st = "deleted")
            => ret.res.err = "ErrNotFound" /\ ret.res.entry = NoEntry

\* C2's case: a Read without the skip-read flag of a written, then deleted key.
C2_Witness ==
    \E k \in Keys : ReadOf(k) /\ hist[k].st = "deleted" /\ ret.res.err = "ErrNotFound"

\* C3, as claimed: Delete returns ErrNotFound when the key has no entry, and
\* no error only when it removed one.  Fails: syncMap.Delete returns nil for
\* an absent key too.
C3_DeleteAbsentNotFound ==
    ret.op = "Delete" => (ret.err = "ErrNotFound" <=> ~ret.had)

\* C5, as claimed: an entry written with unlimited lifetime (the context's
\* ttl is UnlimitedTTL, or it is unset and TimeToLive is UnlimitedTTL) is
\* never read as ErrExpired, ExpireAll apart.  Fails: trait.TTL hands -1 on
\* and the entry expires a nanosecond before it was written.
C5_UnlimitedNeverExpired ==
    \A k \in Keys :
        (ret.op = "Read" /\ ret.key = k /\ hist[k].unl /\ ~hist[k].exp)
            => ret.res.err # "ErrExpired"

\* C6: a Read with the skip-read flag returns ErrNotFound whatever the map
\* holds; the Read without the flag returns the value of a live entry.
C6_SkipReadNotFound ==
    \A k \in Keys :
        (ret.op = "Read" /\ ret.key = k)
            => IF ret.skip
               THEN ret.res.err = "ErrNotFound"
               ELSE (data[k].found /\ ~Before(data[k].E, now))
                        => ret.res = Hit(data[k].V)

\* C6's case: a Read with the flag of a key that holds a live entry.
C6_Witness ==
    \E k \in Keys :
        /\ ret.op = "Read" /\ ret.key = k /\ ret.skip
        /\ data[k].found /\ ~Before(data[k].E, now)

\* C7, as claimed: once ExpireAll has run, a Read of a key it touched returns
\* ErrExpired with the stale value, until the key is written or removed.
\* Fails: the entries get E = start and prepareRead asks E.Before(now), so a
\* Read whose clock reading equals start is a hit.
C7_ExpiredAfterExpireAll ==
    \A k \in Keys :
        (ReadOf(k) /\ hist[k].st = "written" /\ ~hist[k].gone /\ hist[k].exp)
            => /\ ret.res.err = "ErrExpired"
               /\ ret.res.entry.V = hist[k].w

\* A Read of k finds what the last Write(k) stored: nothing deleted, removed
\* or expired it by ExpireAll since.
Untouched(k) == hist[k].st = "written" /\ ~hist[k].gone /\ ~hist[k].exp

\* res is ErrExpired with the value v and the expiration e.
IsExpired(res, v, e) ==
    res.err = "ErrExpired" /\ res.entry.found /\ res.entry.V = v /\ res.entry.E = e

\* C4, as claimed: with ExpirationJitter configured 0, a Read t after the
\* Write (nothing else touching the key) returns the value iff t < ttl, and
\* else ErrExpired with the value and the expiration write instant + ttl.
\* Fails: newTrait makes 0 the default jitter 0.1, and an entry is expired
\* only after its expiration instant (E.Before(now)), not at it.
C4_ExpiryAtNominalTTL ==
    \A k \in Keys :
        (options.ExpirationJitter = 0 /\ ReadOf(k) /\ Untouched(k))
            => IF now < hist[k].nexp
               THEN ret.res = Hit(hist[k].w)
               ELSE IsExpired(ret.res, hist[k].w, hist[k].nexp)

\* C4, amended: with jitter off (ExpirationJitter negative; 0 selects the
\* default 0.1), a Read t after the Write returns the value iff t <= ttl,
\* and else ErrExpired with the value and the expiration write instant + ttl.
C4_ExpiryWithoutJitter ==
    \A k \in Keys :
        (options.ExpirationJitter < 0 /\ ReadOf(k) /\ Untouched(k))
            => IF now <= hist[k].nexp
               THEN ret.res = Hit(hist[k].w)
               ELSE IsExpired(ret.res, hist[k].w, hist[k].nexp)

\* C4's case: with jitter off, a Read after the ttl has passed.
C4_Witness ==
    \E k \in Keys :
        /\ options.ExpirationJitter < 0 /\ ReadOf(k) /\ Untouched(k)
        /\ now > hist[k].nexp /\ hist[k].nexp > 0
        /\ ret.res.err = "ErrExpired"

\* The fraction of the entries evictOldest is to drop, in percent.
Fraction == IF options.EvictFraction = 0 THEN DefaultEvictFraction ELSE options.EvictFraction
\* floor(n * evict_fraction)
Floor(n) == (n * Fraction) \div 100
\* A pass that called evictOldest has just ended.
Evicted == jpc = "done" /\ jPass.evicted
EvictedKeys == {KeyOf(jEntries[i].key) : i \in 1..jEvict}

\* C9: an eviction pass over n entries with no concurrent mutation removes
\* floor(n * evict_fraction) entries, each with an expireAt at or before that
\* of every entry it leaves.
C9_EvictsOldestPrefix ==
    (Evicted /\ ~jPass.mut)
        => /\ Cardinality(EvictedKeys) = Floor(jPass.n)
           /\ syncMapLen = jPass.n - Floor(jPass.n)
           /\ \A i \in 1..jEvict :
                 /\ ~data[KeyOf(jEntries[i].key)].found
                 /\ \A k \in Present : jEntries[i].expireAt <= data[k].E

\* C9's case: a pass that evicted an entry and left one that expires later.
C9_Witness ==
    /\ Evicted /\ ~jPass.mut /\ jEvict >= 1
    /\ \E k \in Present : jEntries[1].expireAt < data[k].E

\* C10, as claimed: with CountSoftLimit N, after a pass whose pressure made it
\* evict, Len() <= N - floor(N * f) + the Writes concurrent with the pass.
\* Fails: the pass drops a fraction of the n >= N entries it finds.
C10_LenWithinLimit ==
    (Evicted /\ cfg.CountSoftLimit > 0)
        => syncMapLen <= cfg.CountSoftLimit - Floor(cfg.CountSoftLimit) + jPass.cw

\* C10, amended: after such a pass Len() <= n - floor(n * f) + the Writes
\* concurrent with the pass, n >= N being Len() when the pass began.
C10_LenWithinStart ==
    (Evicted /\ cfg.CountSoftLimit > 0)
        => syncMapLen <= jPass.n0 - Floor(jPass.n0) + jPass.cw

\* C10's case: a pass that began above the limit, with a Write during it.
C10_Witness ==
    /\ Evicted /\ cfg.CountSoftLimit > 0 /\ jEvict >= 1
    /\ jPass.n0 > cfg.CountSoftLimit /\ jPass.cw > 0
    /\ syncMapLen = jPass.n0 - Floor(jPass.n0) + jPass.cw

\* ExpireAll has been called on a cache holding entries, with no Write since.
AllExpired == syncMapLen > 0 /\ \A k \in Present : hist[k].exp

\* C8: with DeleteExpiredAfter configured 0 (newTrait makes it the default of
\* 24 hours), once ExpireAll has been called on a cache holding entries, the
\* janitor eventually removes them all, Len() = 0, unless a Write comes.
C8_JanitorEventuallyEmpties ==
    (options.DeleteExpiredAfter = 0 /\ AllExpired)
        ~> (syncMapLen = 0 \/ \E k \in Present : ~hist[k].exp)

\* C8's case: with no CountSoftLimit, the janitor has removed every entry
\* that ExpireAll had expired, DefaultDeleteExpiredAfter later.
C8_Witness ==
    /\ options.DeleteExpiredAfter = 0 /\ options.CountSoftLimit = 0
    /\ syncMapLen = 0
    /\ \E k \in Keys : hist[k].gone /\ hist[k].exp
                          /\ now > hist[k].eexp + DefaultDeleteExpiredAfter

\* C11, as claimed: Len() is the number of Write calls minus the number of
\* Delete calls minus the entries the janitor removed (evicted or expired).
\* Fails: a Write to a key that has an entry adds none, a Delete of a key
\* that has none removes none.
C11_LenCountsCalls ==
    acct.on => syncMapLen = acct.writes - acct.deletes - acct.reclaimed

\* C11, amended: Len() is the number of Writes that stored a key that had no
\* entry, minus the Deletes that found one, minus the entries DeleteAll and
\* the janitor removed.
C11_LenCountsEntries ==
    acct.on => syncMapLen = acct.created - acct.removed - acct.cleared - acct.reclaimed

\* C11's case: a Write over an entry, a Delete of no entry and a removal by
\* the janitor have happened, and entries are left.
C11_Witness ==
    /\ acct.on /\ syncMapLen > 0
    /\ acct.writes > acct.created /\ acct.deletes > acct.removed /\ acct.reclaimed > 0

\* The bag of the triples of a Walk output w (key |-> triple).
BagOfTriples(w) ==
    [t \in {w[k] : k \in DOMAIN w} |-> Cardinality({k \in DOMAIN w : w[k] = t})]

\* A Restore of a whole Dump of a state that Writes made, into an empty cache.
RoundTrip ==
    /\ ret.op = "Restore" /\ ret.err = "nil"
    /\ \A k \in Keys : ~ret.before[k].found
    /\ dumped.written /\ Len(dumped.stream) = Cardinality(DOMAIN dumped.of)

\* C12: Dump, then Restore of the bytes into an empty cache, gives a cache
\* whose Walk output is the dumped one as a bag of (key, value, expire_at);
\* Restore returns the number of entries; a second Restore of the same
\* bytes leaves the cache as it is and returns that number again.
C12_DumpRestoreRoundTrip ==
    RoundTrip =>
        /\ BagOfTriples(Triples) = BagOfTriples(dumped.of)
        /\ ret.n = Cardinality(DOMAIN dumped.of)
        /\ LET again == RestoreRun(data, dumped.stream, 0)
           IN  again.data = data /\ again.n = ret.n /\ again.err = "nil"

\* The last record among the first n of the stream that has the key bytes b.
LastRecord(stream, n, b) ==
    LET is == {i \in 1..n : stream[i].K = b}
    IN  IF is = {} THEN 0 ELSE CHOOSE i \in is : \A j \in is : j <= i

\* C13: Restore returns (n, nil) at the end of the input, n the number of
\* records, and (i, error) when decoding record i + 1 fails; the records read
\* are stored under their keys (the last record of a key wins) and every
\* other key is as it was.
C13_RestorePartial ==
    ret.op = "Restore" =>
        LET stream == dumped.stream
            fails == ret.failAt \in 1..Len(stream)
            n == IF fails THEN ret.failAt - 1 ELSE Len(stream)
        IN  /\ ret.n = n
            /\ ret.err = IF fails THEN "error" ELSE "nil"
            /\ \A k \in Keys :
                  LET i == LastRecord(stream, n, KeyBytes(k))
                  IN  IF i = 0 THEN data[k] = ret.before[k]
                      ELSE data[k].found /\ data[k].V = stream[i].V
                                         /\ data[k].E = stream[i].E

\* A Walk or a Dump has returned.
Walked == ret.op \in {"Walk", "Dump"}
WalkFailed == ret.failAt \in 1..syncMapLen

\* C14: Walk calls walkFn once per entry; with no failure it returns
\* (Len(), nil); at the first failure it stops and returns the error and the
\* number of calls that succeeded.  Dump writes that many records.
C14_WalkCounts ==
    Walked =>
        LET calls == ret.run.calls
        IN  /\ \A i, j \in 1..Len(calls) : i # j => calls[i] # calls[j]
            /\ \A i \in 1..Len(calls) : calls[i] \in Present
            /\ IF WalkFailed
               THEN /\ Len(calls) = ret.failAt
                    /\ ret.run.n = ret.failAt - 1
                    /\ ret.run.err = "error"
               ELSE /\ {calls[i] : i \in 1..Len(calls)} = Present
                    /\ ret.run.n = syncMapLen
                    /\ ret.run.err = "nil"
            /\ ret.op = "Dump" => Len(dumped.stream) = ret.run.n

\* C14's case: a Dump whose io.Writer failed after it took a record.
C14_Witness ==
    /\ ret.op = "Dump" /\ WalkFailed /\ ret.failAt > 1
    /\ ret.run.n = ret.failAt - 1 /\ syncMapLen > ret.failAt

\* C16: every stored entry's key field K is the key it is stored under.
C16_KeyFieldIsMapKey ==
    \A k \in Present : data[k].K = KeyBytes(k)
\* A worker that returned: the janitor, the reporter.
JanitorReturned == jpc = "closed"
ReporterReturned == life.rpc \in {"none", "done"}

\* C15: Closed is closed at most once; once it is closed, every started
\* worker (the janitor, the items-count reporter) eventually returns, having
\* taken the timer branch of its select at most once more; a worker that
\* returned removes nothing from the map and publishes no gauge; the reporter
\* publishes one final items gauge before it returns.
C15_Shutdown ==
    /\ [](life.closes <= 1)
    /\ [](life.jLate <= 1 /\ life.rLate <= 1)
    /\ (life.closed ~> (JanitorReturned /\ ReporterReturned))
    /\ [][JanitorReturned =>
            /\ JanitorReturned'
            /\ \A k \in Keys : data[k].found => data'[k].found]_vars
    /\ [][life.rpc = "done" =>
            life'.rpc = "done" /\ life'.gauge = life.gauge]_vars
    /\ [](life.rpc = "done" => life.finals = 1)

\* C15 witness: Closed was closed while both workers waited with their timers
\* fired; each took one more timer branch, the janitor evicting an entry in
\* that pass, and both have returned, the reporter with its final gauge.
C15_Witness ==
    /\ life.closed
    /\ JanitorReturned
    /\ life.rpc = "done"
    /\ life.jLate = 1
    /\ life.rLate = 1
    /\ life.finals = 1
    /\ \E k \in Keys : hist[k].gone
\* The step is a Read; the state is the one a Read of an expired entry left.
ReadStep == ret'.op = "Read"
ReadExpired == ret.op = "Read" /\ ret.res.err = "ErrExpired"

\* C17: a Read, whatever it returns (a value, ErrNotFound, ErrExpired, or
\* nothing as reads are skipped), leaves the map as it was: the same entries,
\* each with its value and expiration; and a Read of the same key that follows
\* a Read that returned ErrExpired returns ErrExpired with the same value.
C17_ReadKeepsStore ==
    /\ [][ReadStep => data' = data]_vars
    /\ [][(ReadExpired /\ ReadStep /\ ret'.key = ret.key /\ ~ret'.skip) =>
            /\ ret'.res.err = "ErrExpired"
            /\ ret'.res.entry.V = ret.res.entry.V]_vars

\* C17 witness: a Read returned ErrExpired and its entry is still in the map,
\* with the value and the expiration the error carries.
C17_Witness ==
    /\ ReadExpired
    /\ data[ret.key].found
    /\ data[ret.key] = ret.res.entry
    /\ \E k \in Present : k # ret.key
\* The janitor removes the entry of k in this step; the Range of
\* deleteExpiredBefore has visited every key.
JanitorRemoves(k) == jpc \in {"reclaim", "evict"} /\ data[k].found /\ ~data'[k].found
Reclaimed == jpc \in {"collect", "evict", "done"} \/ (jpc = "reclaim" /\ jTodo = {})
AtOrAfterCutoff(k) == ~Before(data[k].E, jBoundary)

\* Pressure as the pass found it after its reclamation: the count limit is
\* set and Len() had reached it, or the heap limit is set and the heap in
\* use was above it (PressureExceeded), at or above it (PressureReached).
CountPressure == cfg.CountSoftLimit > 0 /\ jPass.n >= cfg.CountSoftLimit
PressureExceeded ==
    \/ jPass.evicted /\ CountPressure
    \/ cfg.HeapInUseSoftLimit # 0 /\ jPass.heap > cfg.HeapInUseSoftLimit
PressureReached ==
    \/ jPass.evicted /\ CountPressure
    \/ cfg.HeapInUseSoftLimit # 0 /\ jPass.heap >= cfg.HeapInUseSoftLimit

Unlimited(k) == k \in Present /\ hist[k].unl /\ ~hist[k].exp
\* evictOldest has sorted its entries and deleted none yet.
AboutToEvict == jpc = "evict" /\ jI = 0

\* C19: evictOldest orders the entries written with unlimited lifetime after
\* every entry with a finite expiration, so a pass evicts an unlimited entry
\* only if it evicts every entry with a finite expiration too.
C19_UnlimitedEvictedLast ==
    AboutToEvict =>
        \A i \in 1..jEvict, j \in (jEvict + 1)..Len(jEntries) :
            Unlimited(KeyOf(jEntries[i].key)) => Unlimited(KeyOf(jEntries[j].key))
\* C20: a Read of a key observes a value and an expiration stored together:
\* the value of the last Write of the key with the expiration that Write gave
\* it (or the instant of an ExpireAll since), never the value of one Write
\* with the expiration of another; and an errExpired a Read returned keeps
\* reporting the value and the expiration it reported when it was returned.
C20_ReadPairWhole ==
    /\ \A k \in Keys :
          (ReadOf(k) /\ ret.res.err = "nil") => ret.res.val = hist[k].w
    /\ \A k \in Keys :
          (ReadOf(k) /\ ret.res.err = "ErrExpired") =>
              /\ ret.res.entry.V = hist[k].w
              /\ hist[k].exp \/ ret.res.entry.E = hist[k].eexp
    /\ held.has => (held.V = held.V0 /\ held.E = held.E0)
\* The janitor deletes the entry of k in this step.
JanitorDeletes(k) == jpc \in {"delete", "evict"} /\ data[k].found /\ ~data'[k].found

\* C21: a janitor pass that runs concurrently with Writes removes only entries
\* it examined: an entry a Write stored for k after the pass read the entry of
\* k (in deleteExpiredBefore's Range or in evictOldest's) is not removed by the
\* pass, so that a Read of k after the pass finds it.
C21_RemovesOnlyExamined ==
    [][\A k \in Keys : JanitorDeletes(k) => k \notin jPass.wr]_vars

====
